---- MODULE Spec2Model ----
(***************************************************************************)
(* A model of trl/trainer/ppo_trainer.py: PPOTrainer.step and the          *)
(* functions it calls (_step_safety_checker, batched_forward_pass,         *)
(* compute_rewards, train_minibatch, loss, record_step_stats) and the KL   *)
(* controllers it drives.                                                  *)
(*                                                                         *)
(* Numbers.  Every float of the program is an exact rational <<n, d>> in   *)
(* lowest terms with d > 0.  Log-probabilities are measured in bits, so    *)
(* that torch.exp of a difference of log-probabilities is the exact        *)
(* rational 2^k.  Tensors of rank 1 are sequences; positions written in    *)
(* comments are the 0-based positions of the Python code, sequence indices *)
(* are 1-based (index = position + 1).                                     *)
(***************************************************************************)
EXTENDS Integers, Sequences, FiniteSets

----------------------------------------------------------------------------
(* Exact rational arithmetic standing for the program's float arithmetic.  *)

Abs(x) == IF x < 0 THEN -x ELSE x

RECURSIVE GCD(_, _)
GCD(a, b) == IF b = 0 THEN a ELSE GCD(b, a % b)

Rat(n, d) ==
    LET g == GCD(Abs(n), Abs(d))
        s == IF d < 0 THEN -1 ELSE 1
    IN  <<(s * n) \div g, (s * d) \div g>>

R(k) == <<k, 1>>

\* a sum and a comparison over the least common denominator
LCM(a, b) == (a \div GCD(a, b)) * b
RAdd(a, b) ==
    LET l == LCM(a[2], b[2])
    IN  Rat(a[1] * (l \div a[2]) + b[1] * (l \div b[2]), l)
RNeg(a) == <<-a[1], a[2]>>
RSub(a, b) == RAdd(a, RNeg(b))
RMul(a, b) ==
    LET g1 == GCD(Abs(a[1]), b[2])
        g2 == GCD(Abs(b[1]), a[2])
    IN  Rat((a[1] \div g1) * (b[1] \div g2), (a[2] \div g2) * (b[2] \div g1))
RDiv(a, b) == RMul(a, IF b[1] < 0 THEN <<-b[2], -b[1]>> ELSE <<b[2], b[1]>>)
RLt(a, b) ==
    LET l == LCM(a[2], b[2])
    IN  a[1] * (l \div a[2]) < b[1] * (l \div b[2])
RLe(a, b) == ~RLt(b, a)
RGt(a, b) == RLt(b, a)
RMax(a, b) == IF RLt(a, b) THEN b ELSE a
RMin(a, b) == IF RLt(b, a) THEN b ELSE a
RSq(a) == RMul(a, a)

RECURSIVE Pow2(_)
Pow2(k) == IF k = 0 THEN 1 ELSE 2 * Pow2(k - 1)

\* torch.exp on a whole number of bits: 2^k
Exp(a) == IF a[1] >= 0 THEN <<Pow2(a[1]), 1>> ELSE <<1, Pow2(-a[1])>>

RECURSIVE RSumTo(_, _)
RSumTo(xs, n) == IF n = 0 THEN R(0) ELSE RAdd(RSumTo(xs, n - 1), xs[n])
\* torch.sum and torch.mean of a rank-1 tensor
RSum(xs) == RSumTo(xs, Len(xs))
RMean(xs) == RDiv(RSum(xs), R(Len(xs)))

----------------------------------------------------------------------------
(* Python sequence operations.                                             *)

Min(a, b) == IF a < b THEN a ELSE b
Max(a, b) == IF a < b THEN b ELSE a

\* the bound of a Python slice: a negative bound counts from the end, and
\* every bound is clamped to 0 .. len
PyBound(i, n) == IF i < 0 THEN Max(i + n, 0) ELSE Min(i, n)

\* s[a:b] with 0-based bounds a, b
PySlice(s, a, b) ==
    LET lo == PyBound(a, Len(s))
        hi == PyBound(b, Len(s))
    IN  [k \in 1..Max(hi - lo, 0) |-> s[lo + k]]

\* s[a:]
PyFrom(s, a) == PySlice(s, a, Len(s))

\* s[i] with a 0-based, possibly negative index i inside the sequence
PyAt(s, i) == IF i < 0 THEN s[Len(s) + i + 1] ELSE s[i + 1]

\* s[::-1]
Reverse(s) == [k \in 1..Len(s) |-> s[Len(s) + 1 - k]]

\* the positions 0 .. n-1 of list(range(n))
Range(n) == [k \in 1..n |-> k - 1]

----------------------------------------------------------------------------
(* The collaborators of the trainer: the tokenizer's collator and the two  *)
(* networks.  They are stand-ins with the interface the trainer uses: the  *)
(* networks are causal (the output at a position depends on the tokens up  *)
(* to it), the reference network is frozen, and the policy network's       *)
(* output depends on its parameters theta, the number of optimizer steps   *)
(* applied so far.  Each logits row is a normalised table of               *)
(* log-probabilities in bits: one token has probability 1/2, the two       *)
(* others 1/4.                                                             *)

Vocab == {0, 1, 2}
PadToken == 0
NetPeriod == 3

\* torch.cat([q, r])
Cat(q, r) == q \o r

MaxLenOf(rows) ==
    IF Len(rows) = 0 THEN 0
    ELSE CHOOSE m \in {Len(rows[j]) : j \in 1..Len(rows)} :
             \A j \in 1..Len(rows) : Len(rows[j]) <= m

\* self.data_collator(rows)["input_ids"]: the rows padded on the right to the
\* longest row of the chunk
data_collator(rows) ==
    LET T == MaxLenOf(rows)
    IN  [j \in 1..Len(rows) |->
            [p \in 1..T |-> IF p <= Len(rows[j]) THEN rows[j][p] ELSE PadToken]]

LogitsRow(fav) == [tok \in Vocab |-> IF tok = fav THEN R(-1) ELSE R(-2)]

\* logits, _, v = self.model(input_ids)
model(input_ids, theta) ==
    [logits |-> [j \in 1..Len(input_ids) |->
                    [p \in 1..Len(input_ids[j]) |->
                        LogitsRow((input_ids[j][p] + theta) % NetPeriod)]],
     v |-> [j \in 1..Len(input_ids) |->
                    [p \in 1..Len(input_ids[j]) |->
                        R((p - 1) - (theta % NetPeriod))]]]

\* ref_logits, _, _ = self.ref_model(input_ids)
ref_model(input_ids) ==
    [logits |-> [j \in 1..Len(input_ids) |->
                    [p \in 1..Len(input_ids[j]) |->
                        LogitsRow(input_ids[j][p] % NetPeriod)]]]

\* core.logprobs_from_logits(logits, labels) for one row: log_softmax (the
\* identity on a normalised row) and the gather at the label of each position
logprobs_from_logits(logits, labels) ==
    [p \in 1..Min(Len(logits), Len(labels)) |-> logits[p][labels[p]]]

\* logprobs_from_logits(x[:, :-1, :], ids[:, 1:]) for one row
shifted_logprobs(logits, ids) ==
    logprobs_from_logits(PySlice(logits, 0, -1), PyFrom(ids, 1))

----------------------------------------------------------------------------
(* _step_safety_checker.  A score is a tensor [dim, data]: its rank and    *)
(* its elements.  The result carries the exception raised, "none" if none. *)

\* score.squeeze() of a rank-1 score: rank 0 when it has one element
squeeze(score) ==
    IF Len(score.data) = 1 THEN [dim |-> 0, data |-> score.data] ELSE score

\* the first two checks apply to a list of tensors (lines 187-190 pass, but
\* tensor_list[0] of an empty list raises IndexError before len is compared)
ListError(batch_size, tensor_list) ==
    IF Len(tensor_list) = 0 THEN "IndexError"
    ELSE IF Len(tensor_list) # batch_size THEN "ValueError"
    ELSE "none"

_step_safety_checker(batch_size, queries, responses, scores) ==
    LET e1 == ListError(batch_size, queries)
        e2 == ListError(batch_size, responses)
        e3 == ListError(batch_size, scores)
        err == IF e1 # "none" THEN e1
               ELSE IF e2 # "none" THEN e2
               ELSE IF e3 # "none" THEN e3
               ELSE IF \E i \in 1..Len(scores) : scores[i].dim > 1 THEN "ValueError"
               ELSE "none"
    IN  [err |-> err,
         queries |-> queries,
         responses |-> responses,
         scores |-> [i \in 1..Len(scores) |->
                        IF scores[i].dim = 1 THEN squeeze(scores[i]) ELSE scores[i]]]

----------------------------------------------------------------------------
(* batched_forward_pass                                                    *)

\* the outputs of chunk i (0-based) of the forward pass
ForwardChunk(fbs, theta, queries, responses, i) ==
    LET query_batch == PySlice(queries, i * fbs, (i + 1) * fbs)
        response_batch == PySlice(responses, i * fbs, (i + 1) * fbs)
        input_ids == data_collator(
            [j \in 1..Min(Len(query_batch), Len(response_batch)) |->
                Cat(query_batch[j], response_batch[j])])
        out == model(input_ids, theta)
        ref == ref_model(input_ids)
    IN  [j \in 1..fbs |->
            LET start == Len(query_batch[j]) - 1
                end == Len(query_batch[j]) + Len(response_batch[j]) - 1
            IN  [values |-> PySlice(out.v[j], start - 1, end - 1),
                 logprobs |-> PySlice(
                     shifted_logprobs(out.logits[j], input_ids[j]), start, end),
                 ref_logprobs |-> PySlice(
                     shifted_logprobs(ref.logits[j], input_ids[j]), start, end)]]

batched_forward_pass(bs, fbs, theta, queries, responses) ==
    LET nchunks == bs \div fbs
        at(k) == ForwardChunk(fbs, theta, queries, responses,
                              (k - 1) \div fbs)[((k - 1) % fbs) + 1]
    IN  [logprobs |-> [k \in 1..(nchunks * fbs) |-> at(k).logprobs],
         ref_logprobs |-> [k \in 1..(nchunks * fbs) |-> at(k).ref_logprobs],
         values |-> [k \in 1..(nchunks * fbs) |-> at(k).values]]

----------------------------------------------------------------------------
(* compute_rewards                                                         *)

\* reward = non_score_reward.clone(); reward[-1] += score
AddScore(non_score_reward, score) ==
    [t \in 1..Len(non_score_reward) |->
        IF t = Len(non_score_reward)
        THEN RAdd(non_score_reward[t], score.data[1])
        ELSE non_score_reward[t]]

\* RewardsOf without the clone: the score lands in non_score_reward too
RewardsOfNoClone(kl_value, score, logprob, ref_logprob) ==
    LET kl == [t \in 1..Len(logprob) |-> RSub(logprob[t], ref_logprob[t])]
        non_score_reward == [t \in 1..Len(kl) |-> RMul(RNeg(kl_value), kl[t])]
    IN  [non_score_reward |-> AddScore(non_score_reward, score),
         reward |-> AddScore(non_score_reward, score)]

\* the rewards of one example
RewardsOf(kl_value, score, logprob, ref_logprob) ==
    LET kl == [t \in 1..Len(logprob) |-> RSub(logprob[t], ref_logprob[t])]
        non_score_reward == [t \in 1..Len(kl) |-> RMul(RNeg(kl_value), kl[t])]
    IN  [non_score_reward |-> non_score_reward,
         reward |-> AddScore(non_score_reward, score)]

\* reward[-1] += score raises when reward is empty (IndexError) or when the
\* score has more than one element (the in-place add cannot broadcast)
RewardError(score, logprob) ==
    IF Len(logprob) = 0 THEN "IndexError"
    ELSE IF Len(score.data) # 1 THEN "RuntimeError"
    ELSE "none"

compute_rewards(kl_value, scores, logprobs, ref_logprobs) ==
    LET n == Min(Len(scores), Min(Len(logprobs), Len(ref_logprobs)))
        bad == {k \in 1..n : RewardError(scores[k], logprobs[k]) # "none"}
    IN  IF bad # {}
        THEN [err |-> RewardError(scores[CHOOSE k \in bad : \A m \in bad : k <= m],
                                  logprobs[CHOOSE k \in bad : \A m \in bad : k <= m]),
              rewards |-> <<>>, non_score_rewards |-> <<>>]
        ELSE [err |-> "none",
              rewards |-> [k \in 1..n |->
                  RewardsOf(kl_value, scores[k], logprobs[k], ref_logprobs[k]).reward],
              non_score_rewards |-> [k \in 1..n |->
                  RewardsOf(kl_value, scores[k], logprobs[k],
                            ref_logprobs[k]).non_score_reward]]

----------------------------------------------------------------------------
(* loss: Generalized Advantage Estimation, the fresh forward pass, the     *)
(* clipped value and policy losses and their clip fractions.  The          *)
(* minibatch holds one example, so a tensor of shape [1, n] is a sequence  *)
(* of length n.                                                            *)

\* the loop of lines 479-486 from t down to 0: the advantages in the order
\* the loop appends them (advantages_reversed)
RECURSIVE GaeLoop(_, _, _, _, _, _, _)
GaeLoop(gamma, lam, values, rewards, gen_len, t, lastgaelam) ==
    IF t < 0 THEN <<>>
    ELSE LET nextvalues == IF t < gen_len - 1 THEN PyAt(values, t + 1) ELSE R(0)
             delta == RSub(RAdd(PyAt(rewards, t), RMul(gamma, nextvalues)),
                           PyAt(values, t))
             new == RAdd(delta, RMul(RMul(gamma, lam), lastgaelam))
         IN  <<new>> \o GaeLoop(gamma, lam, values, rewards, gen_len, t - 1, new)

\* gae_advantages without the [::-1]
gae_advantages_unreversed(gamma, lam, values, rewards, gen_len) ==
    GaeLoop(gamma, lam, values, rewards, gen_len, gen_len - 1, R(0))

\* advantages = torch.stack(advantages_reversed[::-1]).transpose(0, 1)
gae_advantages(gamma, lam, values, rewards, gen_len) ==
    Reverse(GaeLoop(gamma, lam, values, rewards, gen_len, gen_len - 1, R(0)))

\* returns = advantages + values
gae_returns(advantages, values) ==
    [t \in 1..Len(advantages) |-> RAdd(advantages[t], values[t])]

\* core.whiten(advantages): (x - mean) * rsqrt(var + 1e-8).  The factor
\* rsqrt(var + 1e-8) is irrational; it is the positive number scale.
whiten(xs, scale) ==
    [t \in 1..Len(xs) |-> RMul(RSub(xs[t], RMean(xs)), scale)]

\* core.clip_by_value(x, lo, hi) and torch.clamp(x, lo, hi) of one element
clip_by_value(x, lo, hi) == RMax(RMin(x, hi), lo)

\* torch.mean(torch.gt(a, b).double())
GtFraction(a, b) ==
    Rat(Cardinality({t \in 1..Len(a) : RGt(a[t], b[t])}), Len(a))

\* lines 519-520
pg_losses_of(advantages, ratio) ==
    [t \in 1..Len(ratio) |-> RMul(RNeg(advantages[t]), ratio[t])]

pg_losses2_of(advantages, ratio, cliprange) ==
    [t \in 1..Len(ratio) |->
        RMul(RNeg(advantages[t]),
             clip_by_value(ratio[t], RSub(R(1), cliprange), RAdd(R(1), cliprange)))]

\* pg_clipfrac_of counting every element whose ratio the clamp changed
pg_clipfrac_of_clamped(advantages, ratio, cliprange) ==
    Rat(Cardinality({t \in 1..Len(ratio) :
            clip_by_value(ratio[t], RSub(R(1), cliprange), RAdd(R(1), cliprange))
                # ratio[t]}),
        Len(ratio))

\* line 525
pg_clipfrac_of(advantages, ratio, cliprange) ==
    GtFraction(pg_losses2_of(advantages, ratio, cliprange),
               pg_losses_of(advantages, ratio))

\* values[:, t] and rewards[:, t] raise IndexError in the advantage loop when
\* the tensor is shorter than the response
LossError(values, rewards, gen_len) ==
    IF Len(values) < gen_len \/ Len(rewards) < gen_len THEN "IndexError" ELSE "none"

\* lines 496-501: the fresh forward pass on model_input, sliced to the
\* response: logprob[:, -gen_len:] and vpred[:, -gen_len - 1 : -1]
fresh_logprob(theta, model_input, gen_len) ==
    PyFrom(shifted_logprobs(model(<<model_input>>, theta).logits[1], model_input),
           -gen_len)

fresh_vpred(theta, model_input, gen_len) ==
    PySlice(model(<<model_input>>, theta).v[1], -gen_len - 1, -1)

loss(config, theta, old_logprobs, values, rewards, response, model_input, scale) ==
    LET gen_len == Len(response)
        advantages == gae_advantages(config.gamma, config.lam, values, rewards, gen_len)
        returns == gae_returns(advantages, values)
        whitened == whiten(advantages, scale)
        logprob == fresh_logprob(theta, model_input, gen_len)
        vpred == fresh_vpred(theta, model_input, gen_len)
        vpredclipped == [t \in 1..Len(vpred) |->
            clip_by_value(vpred[t], RSub(values[t], config.cliprange_value),
                          RAdd(values[t], config.cliprange_value))]
        vf_losses1 == [t \in 1..Len(vpred) |-> RSq(RSub(vpred[t], returns[t]))]
        vf_losses2 == [t \in 1..Len(vpred) |-> RSq(RSub(vpredclipped[t], returns[t]))]
        ratio == [t \in 1..Len(logprob) |-> Exp(RSub(logprob[t], old_logprobs[t]))]
    IN  IF LossError(values, rewards, gen_len) # "none"
        THEN [err |-> LossError(values, rewards, gen_len)]
        ELSE [err |-> "none",
              advantages |-> advantages,
              returns |-> returns,
              whitened |-> whitened,
              ratio |-> ratio,
              vf_clipfrac |-> GtFraction(vf_losses2, vf_losses1),
              pg_clipfrac |-> pg_clipfrac_of(whitened, ratio, config.cliprange),
              policykl |-> RMean([t \in 1..Len(logprob) |->
                                     RSub(logprob[t], old_logprobs[t])])]

----------------------------------------------------------------------------
(* The KL controllers (trl/trainer/__init__.py) and record_step_stats      *)

\* FixedKLController(init_kl_coef) / AdaptiveKLController(init, target, horizon)
kl_ctl_init(config) ==
    IF config.adap_kl_ctrl
    THEN [kind |-> "adaptive", value |-> config.init_kl_coef,
          target |-> config.target, horizon |-> config.horizon]
    ELSE [kind |-> "fixed", value |-> config.init_kl_coef,
          target |-> config.target, horizon |-> config.horizon]

\* kl_ctl.update(current, n_steps)
kl_ctl_update(ctl, current, n_steps) ==
    IF ctl.kind = "fixed" THEN ctl
    ELSE LET proportional_error ==
                 clip_by_value(RSub(RDiv(current, ctl.target), R(1)),
                               Rat(-1, 5), Rat(1, 5))
             mult == RAdd(R(1), RDiv(RMul(proportional_error, n_steps), ctl.horizon))
         IN  [ctl EXCEPT !.value = RMul(ctl.value, mult)]

\* kl_update_count with the process index (0 on the main process) in place
\* of the number of processes
kl_update_count_by_index(config, num_processes) ==
    R(config.batch_size * (num_processes - 1))

\* the sample count step() hands to the controller (line 297)
kl_update_count(config, num_processes) == R(config.batch_size * num_processes)

\* torch.mean(v, axis=0) of the statistic named key, stacked over the minibatches
StatMean(all_stats, key) ==
    RMean([k \in 1..Len(all_stats) |-> all_stats[k][key]])

record_step_stats(kl_coef, logprobs, ref_logprobs, non_score_reward, train_stats) ==
    LET n == Min(Len(logprobs), Len(ref_logprobs))
        kl_sums == [k \in 1..n |->
            RSum([t \in 1..Len(logprobs[k]) |->
                     RSub(logprobs[k][t], ref_logprobs[k][t])])]
    IN  [objective_kl |-> RMean(kl_sums),
         objective_kl_coef |-> kl_coef,
         mean_non_score_reward |->
             RMean([k \in 1..Len(non_score_reward) |-> RSum(non_score_reward[k])]),
         policy_clipfrac |-> StatMean(train_stats, "pg_clipfrac"),
         val_clipfrac |-> StatMean(train_stats, "vf_clipfrac"),
         policy_policykl |-> StatMean(train_stats, "policykl")]

\* step_stats recording the coefficient after the controller's update
step_stats_after_update(ctl, count, logprobs, ref_logprobs, non_score_reward, train_stats) ==
    LET st == record_step_stats(ctl.value, logprobs, ref_logprobs, non_score_reward,
                                train_stats)
    IN  [st EXCEPT !.objective_kl_coef =
            kl_ctl_update(ctl, st.objective_kl, count).value]

\* lines 282-289 of step(): the statistics are recorded with the
\* controller's current value
step_stats(ctl, count, logprobs, ref_logprobs, non_score_reward, train_stats) ==
    record_step_stats(ctl.value, logprobs, ref_logprobs, non_score_reward, train_stats)

----------------------------------------------------------------------------
(* Bounds and input domains                                                *)

MaxSteps == 2
MaxQueryLen == 2
MaxRespLen == 2
MaxGenLen == 2

Flat(L) == [p \in 1..L |-> 0]
Up(L) == [p \in 1..L |-> p % NetPeriod]

QuerySet == {Flat(L) : L \in 1..MaxQueryLen}
ResponseSet == {Up(L) : L \in 1..MaxRespLen}

Scalar(x) == [dim |-> 0, data |-> <<R(x)>>]
Vector(xs) == [dim |-> 1, data |-> [k \in 1..Len(xs) |-> R(xs[k])]]
Matrix(xs) == [dim |-> 2, data |-> [k \in 1..Len(xs) |-> R(xs[k])]]
ScoreSet == {Scalar(1), Vector(<<-1>>), Vector(<<1, -1>>), Matrix(<<1>>)}

BaseConfig ==
    [batch_size |-> 2, forward_batch_size |-> 1, ppo_epochs |-> 1,
     num_processes |-> 1,
     adap_kl_ctrl |-> TRUE, init_kl_coef |-> R(1),
     target |-> Rat(1, 2), horizon |-> R(2),
     gamma |-> R(1), lam |-> Rat(1, 2),
     cliprange |-> Rat(1, 5), cliprange_value |-> Rat(1, 5)]

Configs ==
    {BaseConfig,
     [BaseConfig EXCEPT !.forward_batch_size = 2, !.adap_kl_ctrl = FALSE,
                        !.ppo_epochs = 2]}

ConfigsDiv ==
    {[BaseConfig EXCEPT !.batch_size = 3, !.forward_batch_size = 2],
     [BaseConfig EXCEPT !.batch_size = 1, !.forward_batch_size = 2]}

\* the arguments of one call of step(): three lists of batch_size elements,
\* or three lists of which one at least has another length (their elements
\* are then not looked at beyond the first, and are all the same)
Repeat(x, n) == [k \in 1..n |-> x]

SizedArgs(bs) ==
    [queries : [1..bs -> QuerySet],
     responses : [1..bs -> ResponseSet],
     scores : [1..bs -> ScoreSet]]

MismatchedArgs(bs) ==
    {[queries |-> Repeat(q, nq), responses |-> Repeat(r, nr), scores |-> Repeat(sc, ns)] :
        <<q, r, sc, nq, nr, ns>> \in
            {x \in QuerySet \X ResponseSet \X ScoreSet
                   \X (0..(bs + 1)) \X (0..(bs + 1)) \X (0..(bs + 1)) :
                x[4] # bs \/ x[5] # bs \/ x[6] # bs}}

StepArgs(bs) == SizedArgs(bs) \cup MismatchedArgs(bs)

Shuffles(s) ==
    {[k \in 1..Len(s) |-> s[f[k]]] :
        f \in {g \in [1..Len(s) -> 1..Len(s)] :
                  \A a, b \in 1..Len(s) : a # b => g[a] # g[b]}}

\* the positive factor rsqrt(var + 1e-8) of whiten
WhitenScales == {R(1), R(100)}

----------------------------------------------------------------------------
(* The trainer as a state machine                                          *)

VARIABLES
    config,            \* self.config
    theta,             \* the policy parameters: optimizer steps applied
    kl_ctl,            \* self.kl_ctl
    pc,                \* where step() is
    arg_lens,          \* the lengths of the lists the current call was given
    queries, responses, scores,
    logprobs, ref_logprobs, values,
    rewards, non_score_reward,
    idxs, epoch, i,
    all_stats,
    last_loss,         \* what the latest call of loss() was given and returned
    opt_calls,         \* the optimizer calls of the latest train_minibatch
    stats,             \* the record step() returns
    raised,            \* the exception leaving step(): kind, phase, updates done
    nsteps,            \* calls of step() so far
    trace,             \* the phases the current call of step() has completed
    distributed_type,  \* self.accelerator.distributed_type
    wpc,               \* per worker process: where its call of step() is
    wctl,              \* per worker: its self.kl_ctl
    wstats,            \* per worker: the stats of its current step
    wlocal,            \* per worker: the stats it recorded, step by step
    wkey,              \* per worker: the position of gather_stats in stats.items()
    wsteps,            \* per worker: calls of step() it has completed
    barrier_calls,     \* per worker: calls of dist.barrier() it has made
    reduce_log,        \* per worker: its calls of dist.all_reduce, key and value
    wrewards,          \* per worker: the rewards of its latest call of log_stats
    wlogs              \* per worker: calls of log_stats it has made

vars == <<config, theta, kl_ctl, pc, arg_lens, queries, responses, scores,
          logprobs, ref_logprobs, values, rewards, non_score_reward,
          idxs, epoch, i, all_stats, last_loss, opt_calls, stats, raised, nsteps,
          trace, distributed_type, wpc, wctl, wstats, wlocal, wkey, wsteps,
          barrier_calls, reduce_log, wrewards, wlogs>>

\* the state of the worker processes of a distributed run
dvars == <<distributed_type, wpc, wctl, wstats, wlocal, wkey, wsteps,
           barrier_calls, reduce_log, wrewards, wlogs>>

\* a trainer that is its only process
SingleProcess ==
    /\ distributed_type = "NO"
    /\ wpc = <<>> /\ wctl = <<>> /\ wstats = <<>> /\ wlocal = <<>>
    /\ wkey = <<>> /\ wsteps = <<>> /\ barrier_calls = <<>> /\ reduce_log = <<>>
    /\ wrewards = <<>> /\ wlogs = <<>>

\* an entry of trace: a phase of step() that has completed, and for a
\* minibatch update the index of the example it trained on
Phase(name) == [phase |-> name, idx |-> -1]
Minibatch(idx) == [phase |-> "Minibatch", idx |-> idx]

NoStats == [none |-> TRUE]
NoRaise == [kind |-> "none", phase |-> "none", updates |-> 0]
NoLoss == [err |-> "not called"]

\* the locals of step() before a call and after it has returned or raised
ClearLocals ==
    /\ queries' = <<>> /\ responses' = <<>> /\ scores' = <<>>
    /\ logprobs' = <<>> /\ ref_logprobs' = <<>> /\ values' = <<>>
    /\ rewards' = <<>> /\ non_score_reward' = <<>>
    /\ idxs' = <<>> /\ epoch' = 0 /\ i' = 0
    /\ all_stats' = <<>>
    /\ last_loss' = NoLoss
    /\ opt_calls' = <<>>
    /\ trace' = <<>>

InitWith(cs) ==
    /\ config \in cs
    /\ theta = 0
    /\ kl_ctl = kl_ctl_init(config)
    /\ pc = "Idle"
    /\ arg_lens = <<>>
    /\ queries = <<>> /\ responses = <<>> /\ scores = <<>>
    /\ logprobs = <<>> /\ ref_logprobs = <<>> /\ values = <<>>
    /\ rewards = <<>> /\ non_score_reward = <<>>
    /\ idxs = <<>> /\ epoch = 0 /\ i = 0
    /\ all_stats = <<>>
    /\ last_loss = NoLoss
    /\ opt_calls = <<>>
    /\ stats = NoStats
    /\ raised = NoRaise
    /\ nsteps = 0
    /\ trace = <<>>
    /\ SingleProcess

Init == InitWith(Configs)

\* an exception leaves step(): the locals are gone, the trainer keeps what
\* was done to it
Raise(kind, phase, updates) ==
    /\ pc' = "Raised"
    /\ raised' = [kind |-> kind, phase |-> phase, updates |-> updates]
    /\ ClearLocals
    /\ stats' = NoStats

\* step(queries, responses, scores) is called: lines 232-235
StepCall ==
    /\ pc = "Idle"
    /\ UNCHANGED dvars
    /\ nsteps < MaxSteps
    /\ \E args \in StepArgs(config.batch_size) :
         LET bs == config.batch_size
             checked == _step_safety_checker(bs, args.queries, args.responses,
                                             args.scores)
         IN  /\ nsteps' = nsteps + 1
             /\ arg_lens' = <<Len(args.queries), Len(args.responses), Len(args.scores)>>
             /\ IF checked.err # "none"
                THEN /\ Raise(checked.err, "Validation", 0)
                     /\ UNCHANGED <<config, theta, kl_ctl>>
                ELSE /\ pc' = "ForwardPass"
                     /\ queries' = checked.queries
                     /\ responses' = checked.responses
                     /\ scores' = checked.scores
                     /\ raised' = NoRaise
                     /\ stats' = NoStats
                     /\ UNCHANGED <<config, theta, kl_ctl, logprobs, ref_logprobs,
                                    values, rewards, non_score_reward, idxs, epoch, i,
                                    all_stats, last_loss, opt_calls, trace>>

\* line 245
ForwardPass ==
    /\ pc = "ForwardPass"
    /\ UNCHANGED dvars
    /\ LET out == batched_forward_pass(config.batch_size, config.forward_batch_size,
                                       theta, queries, responses)
       IN  /\ logprobs' = out.logprobs
           /\ ref_logprobs' = out.ref_logprobs
           /\ values' = out.values
    /\ pc' = "RewardShaping"
    /\ trace' = Append(trace, Phase("ForwardPass"))
    /\ UNCHANGED <<config, theta, kl_ctl, arg_lens, queries, responses, scores,
                   rewards, non_score_reward, idxs, epoch, i, all_stats,
                   last_loss, opt_calls, stats, raised, nsteps>>

\* lines 250-255
RewardShaping ==
    /\ pc = "RewardShaping"
    /\ UNCHANGED dvars
    /\ LET out == compute_rewards(kl_ctl.value, scores, logprobs, ref_logprobs)
       IN  IF out.err # "none"
           THEN /\ Raise(out.err, "RewardShaping", 0)
                /\ UNCHANGED <<config, theta, kl_ctl, arg_lens, nsteps>>
           ELSE /\ rewards' = out.rewards
                /\ non_score_reward' = out.non_score_rewards
                /\ idxs' = Range(config.batch_size)
                /\ epoch' = 0
                /\ i' = 0
                /\ all_stats' = <<>>
                /\ pc' = "Shuffle"
                /\ trace' = Append(trace, Phase("RewardShaping"))
                /\ UNCHANGED <<config, theta, kl_ctl, arg_lens, queries, responses,
                               scores, logprobs, ref_logprobs, values, last_loss,
                               opt_calls, stats, raised, nsteps>>

\* line 257: random.shuffle(idxs)
Shuffle ==
    /\ pc = "Shuffle"
    /\ UNCHANGED dvars
    /\ idxs' \in Shuffles(idxs)
    /\ i' = 0
    /\ pc' = "Minibatch"
    /\ UNCHANGED <<config, theta, kl_ctl, arg_lens, queries, responses, scores,
                   logprobs, ref_logprobs, values, rewards, non_score_reward,
                   epoch, all_stats, last_loss, opt_calls, stats, raised, nsteps,
                   trace>>

\* logprobs[idx], values[idx], rewards[idx] raise IndexError for an index the
\* forward pass returned nothing for
MinibatchError(idx) ==
    IF idx >= Len(logprobs) \/ idx >= Len(values) \/ idx >= Len(rewards)
    THEN "IndexError" ELSE "none"

\* lines 258-271 for one i, and train_minibatch (lines 409-416)
TrainMinibatch ==
    /\ pc = "Minibatch"
    /\ UNCHANGED dvars
    /\ LET idx == idxs[i + 1]
       IN  IF MinibatchError(idx) # "none"
           THEN /\ Raise(MinibatchError(idx), "EpochLoop", Len(all_stats))
                /\ UNCHANGED <<config, theta, kl_ctl, arg_lens, nsteps>>
           ELSE \E scale \in WhitenScales :
                LET out == loss(config, theta, logprobs[idx + 1], values[idx + 1],
                                rewards[idx + 1], responses[idx + 1],
                                Cat(queries[idx + 1], responses[idx + 1]), scale)
                IN  IF out.err # "none"
                    THEN /\ Raise(out.err, "EpochLoop", Len(all_stats))
                         /\ UNCHANGED <<config, theta, kl_ctl, arg_lens, nsteps>>
                    ELSE /\ last_loss' =
                               [err |-> "none",
                                old_logprobs |-> logprobs[idx + 1],
                                values |-> values[idx + 1],
                                rewards |-> rewards[idx + 1],
                                advantages |-> out.advantages,
                                returns |-> out.returns,
                                ratio |-> out.ratio,
                                pg_clipfrac |-> out.pg_clipfrac]
                         /\ opt_calls' = <<"zero_grad", "backward", "step">>
                         /\ theta' = theta + 1
                         /\ trace' = Append(trace, Minibatch(idx))
                         /\ all_stats' = Append(all_stats,
                               [pg_clipfrac |-> out.pg_clipfrac,
                                vf_clipfrac |-> out.vf_clipfrac,
                                policykl |-> out.policykl])
                         /\ IF i + 1 < config.batch_size
                            THEN /\ i' = i + 1
                                 /\ pc' = "Minibatch"
                                 /\ epoch' = epoch
                            ELSE /\ i' = 0
                                 /\ epoch' = epoch + 1
                                 /\ pc' = IF epoch + 1 < config.ppo_epochs
                                          THEN "Shuffle" ELSE "StatsAggregation"
                         /\ UNCHANGED <<config, kl_ctl, arg_lens, queries, responses,
                                        scores, logprobs, ref_logprobs, values, rewards,
                                        non_score_reward, idxs, stats, raised, nsteps>>

\* StatsAggregation updating the controller as soon as the statistics exist,
\* ahead of the update of line 297
StatsAggregationUpdating ==
    /\ pc = "StatsAggregation"
    /\ UNCHANGED dvars
    /\ stats' = step_stats(kl_ctl, kl_update_count(config, config.num_processes),
                           logprobs, ref_logprobs, non_score_reward, all_stats)
    /\ kl_ctl' = kl_ctl_update(kl_ctl, stats'.objective_kl,
                               kl_update_count(config, config.num_processes))
    /\ pc' = "KLUpdate"
    /\ trace' = Append(trace, Phase("StatsAggregation"))
    /\ UNCHANGED <<config, theta, arg_lens, queries, responses, scores,
                   logprobs, ref_logprobs, values, rewards, non_score_reward,
                   idxs, epoch, i, all_stats, last_loss, opt_calls, raised, nsteps>>

\* lines 275-294
StatsAggregation ==
    /\ pc = "StatsAggregation"
    /\ UNCHANGED dvars
    /\ stats' = step_stats(kl_ctl, kl_update_count(config, config.num_processes),
                           logprobs, ref_logprobs, non_score_reward, all_stats)
    /\ pc' = "KLUpdate"
    /\ trace' = Append(trace, Phase("StatsAggregation"))
    /\ UNCHANGED <<config, theta, kl_ctl, arg_lens, queries, responses, scores,
                   logprobs, ref_logprobs, values, rewards, non_score_reward,
                   idxs, epoch, i, all_stats, last_loss, opt_calls, raised, nsteps>>

\* line 297
KLUpdate ==
    /\ pc = "KLUpdate"
    /\ UNCHANGED dvars
    /\ kl_ctl' = kl_ctl_update(kl_ctl, stats.objective_kl,
                               kl_update_count(config, config.num_processes))
    /\ pc' = "Return"
    /\ trace' = Append(trace, Phase("KLUpdate"))
    /\ UNCHANGED <<config, theta, arg_lens, queries, responses, scores,
                   logprobs, ref_logprobs, values, rewards, non_score_reward,
                   idxs, epoch, i, all_stats, last_loss, opt_calls, stats, raised,
                   nsteps>>

\* line 302: return stats
Return ==
    /\ pc = "Return"
    /\ UNCHANGED dvars
    /\ pc' = "Idle"
    /\ ClearLocals
    /\ stats' = NoStats
    /\ arg_lens' = <<>>
    /\ UNCHANGED <<config, theta, kl_ctl, raised, nsteps>>

\* the caller has the exception; the trainer is idle again
Unwind ==
    /\ pc = "Raised"
    /\ UNCHANGED dvars
    /\ pc' = "Idle"
    /\ raised' = NoRaise
    /\ arg_lens' = <<>>
    /\ UNCHANGED <<config, theta, kl_ctl, queries, responses, scores,
                   logprobs, ref_logprobs, values, rewards, non_score_reward,
                   idxs, epoch, i, all_stats, last_loss, opt_calls, stats, nsteps,
                   trace>>

Next ==
    \/ StepCall
    \/ ForwardPass
    \/ RewardShaping
    \/ Shuffle
    \/ TrainMinibatch
    \/ StatsAggregation
    \/ KLUpdate
    \/ Return
    \/ Unwind

Spec == Init /\ [][Next]_vars

\* the trainer configured with a batch size its forward sub-batch size does
\* not divide
InitDiv == InitWith(ConfigsDiv \cup {BaseConfig})
SpecDiv == InitDiv /\ [][Next]_vars

----------------------------------------------------------------------------
(* loss() as a function of its arguments: one call of train_minibatch on a *)
(* batch of one example, with the old log-probabilities, values and        *)
(* rewards drawn from bounded sets.                                        *)

LossLogprobs == {R(-1), R(-2)}
LossValues == {R(0), R(1)}
LossRewards == {R(-1), Rat(1, 2)}
LossQueries == {Flat(1), Flat(2)}
LossResponses == {Flat(L) : L \in 1..MaxGenLen} \cup {Up(L) : L \in 1..MaxGenLen}
LossThetas == {0, 1}

LossConfigs ==
    {[BaseConfig EXCEPT !.batch_size = 1, !.cliprange = R(0)],
     [BaseConfig EXCEPT !.batch_size = 1, !.gamma = Rat(1, 2)],
     [BaseConfig EXCEPT !.batch_size = 1, !.cliprange = R(4), !.lam = R(1)]}

InitLoss ==
    /\ config \in LossConfigs
    /\ theta \in LossThetas
    /\ kl_ctl = kl_ctl_init(config)
    /\ pc = "Minibatch"
    /\ arg_lens = <<1, 1, 1>>
    /\ responses \in [1..1 -> LossResponses]
    /\ logprobs \in [1..1 -> [1..Len(responses[1]) -> LossLogprobs]]
    /\ values \in [1..1 -> [1..Len(responses[1]) -> LossValues]]
    /\ rewards \in [1..1 -> [1..Len(responses[1]) -> LossRewards]]
    /\ queries \in [1..1 -> LossQueries]
    /\ scores = <<Scalar(1)>>
    /\ ref_logprobs = logprobs
    /\ non_score_reward = rewards
    /\ idxs = <<0>> /\ epoch = 0 /\ i = 0
    /\ all_stats = <<>>
    /\ last_loss = NoLoss
    /\ opt_calls = <<>>
    /\ stats = NoStats
    /\ raised = NoRaise
    /\ nsteps = 1
    /\ trace = <<Phase("ForwardPass"), Phase("RewardShaping")>>
    /\ SingleProcess

SpecLoss == InitLoss /\ [][TrainMinibatch]_vars

----------------------------------------------------------------------------
(* A distributed run: num_processes worker processes, each a PPOTrainer    *)
(* with its own KL controller, each running step() on its own shard and    *)
(* then, if its caller wishes, log_stats().  What is modelled of a         *)
(* worker's step is its end, lines 282-302: the stats it records,          *)
(* gather_stats when self.is_distributed, and the update of the            *)
(* controller.  dist.barrier() and dist.all_reduce are collectives: the    *)
(* n-th call of a worker completes once every worker has made its n-th     *)
(* call, and the n-th all_reduce sums the values of the n-th calls.        *)
(* A value of stats is [type, dim, data]: a tensor of rank dim with its    *)
(* elements in data, a Python float (dim 0) or a Python list (dim 1).      *)

NumWorkers == 2
Workers == 1..NumWorkers

\* line 124
is_distributed == distributed_type = "MULTI_GPU"

\* self.accelerator.is_main_process (line 618): the first process
is_main_process(w) == w = 1

\* the keys of the stats record in the order of stats.items(): the dict of
\* lines 584-592, then ppo/<key> for every key of train_stats (line 594),
\* which are the keys of the dict of loss (lines 541-560) and the key added
\* by train_minibatch (line 415), then the key of line 596
StatKeys ==
    <<"objective/kl", "objective/kl_dist", "objective/logprobs",
      "objective/ref_logprobs", "objective/kl_coef", "objective/entropy",
      "ppo/mean_non_score_reward",
      "ppo/loss/policy", "ppo/loss/value", "ppo/loss/total",
      "ppo/policy/entropy", "ppo/policy/approxkl", "ppo/policy/policykl",
      "ppo/policy/clipfrac", "ppo/policy/advantages",
      "ppo/policy/advantages_mean", "ppo/policy/ratio",
      "ppo/returns/mean", "ppo/returns/var",
      "ppo/val/vpred", "ppo/val/error", "ppo/val/clipfrac", "ppo/val/mean",
      "ppo/val/var",
      "ppo/time/ppo/optimizer_step",
      "ppo/val/var_explained">>

\* the values of lines 586-588 are Python lists
ListKeys == {"objective/kl_dist", "objective/logprobs", "objective/ref_logprobs"}

\* the statistics that keep one element per response token of every
\* minibatch (lines 277-280)
PerTokenKeys == {"ppo/policy/advantages", "ppo/policy/ratio"}

\* the statistics that are tensors of rank 0: torch.mean of lines 579-583.
\* Every other ppo/ statistic that is not per token has shape
\* (1,): line 595 takes the mean over the stacked minibatches of rows of one
\* element (line 415 for the optimizer time), and line 596 combines two such
RankZeroKeys == {"objective/kl", "objective/entropy", "ppo/mean_non_score_reward"}

TensorOf(dim, data) == [type |-> "tensor", dim |-> dim, data |-> data]
FloatOf(x) == [type |-> "float", dim |-> 0, data |-> <<x>>]
ListOf(data) == [type |-> "list", dim |-> 1, data |-> data]

\* isinstance(v, torch.Tensor), line 322
IsTensor(v) == v.type = "tensor"

\* the position of key in StatKeys
KeyIndex(key) == CHOOSE k \in 1..Len(StatKeys) : StatKeys[k] = key

\* the stats a worker records from its shard (lines 282-289): the shard
\* gives the mean KL kl and responses of resp_len tokens.  objective/kl and
\* ppo/mean_non_score_reward are as lines 566-570 and 585-591 make them; the
\* other one-element statistics differ from key to key and from shard to
\* shard, of rank 0 for the keys of RankZeroKeys and of shape (1,) otherwise;
\* advantages and ratio have one element per token of every minibatch
\* (lines 277-280: ppo_epochs * batch_size minibatches)
LocalKls == {R(0), R(1)}
ShardRespLens == 1..MaxRespLen

\* the elements of a per-token statistic once stack_dicts has stacked the
\* rows of the ppo_epochs * batch_size minibatches and line 277 or 279 has
\* flattened them: one per response token of every minibatch
StackedTokens(resp_len) == config.ppo_epochs * config.batch_size * resp_len

StatValue(key, kl_coef, kl, resp_len) ==
    LET tokens == StackedTokens(resp_len)
    IN  IF key \in ListKeys
        THEN ListOf([k \in 1..config.batch_size |-> kl])
        ELSE IF key = "objective/kl_coef" THEN FloatOf(kl_coef)
        ELSE IF key \in PerTokenKeys
        THEN TensorOf(1, [k \in 1..tokens |-> kl])
        ELSE IF key = "objective/kl" THEN TensorOf(0, <<kl>>)
        ELSE IF key = "ppo/mean_non_score_reward"
        THEN TensorOf(0, <<RMul(RNeg(kl_coef), kl)>>)
        ELSE TensorOf(IF key \in RankZeroKeys THEN 0 ELSE 1,
                      <<RAdd(kl, R(KeyIndex(key)))>>)
LocalStats(kl_coef) ==
    {[key \in {StatKeys[k] : k \in 1..Len(StatKeys)} |->
         StatValue(key, kl_coef, kl, resp_len)] :
        kl \in LocalKls, resp_len \in ShardRespLens}

\* the rewards a caller hands to log_stats, one per example of the shard,
\* as a tensor or as a list of scalar tensors
LogRewards ==
    {TensorOf(1, [k \in 1..config.batch_size |-> R(x)]) : x \in {0, 1}}
        \cup {ListOf([k \in 1..config.batch_size |-> R(x)]) : x \in {0, 1}}

\* lines 621-622 and 656-657: torch.tensor(rewards) unless rewards is a tensor
rewards_to_tensor(r) == IF IsTensor(r) THEN r ELSE TensorOf(r.dim, r.data)

\* torch.distributed requires tensors of one shape on every process
SameShape(contributions) ==
    \A v \in Workers :
        /\ contributions[v].dim = contributions[1].dim
        /\ Len(contributions[v].data) = Len(contributions[1].data)

\* dist.all_reduce(v, dist.ReduceOp.SUM) on tensors of one shape
all_reduce_sum(contributions) ==
    TensorOf(contributions[1].dim,
             [k \in 1..Len(contributions[1].data) |->
                 RSum([v \in Workers |-> contributions[v].data[k]])])

\* v /= num_processes (lines 324 and 639)
TensorDiv(t, num_processes) ==
    TensorOf(t.dim, [k \in 1..Len(t.data) |-> RDiv(t.data[k], R(num_processes))])

\* lines 323-324: dist.all_reduce(v, dist.ReduceOp.SUM); v /= num_processes
all_reduce_mean(contributions, num_processes) ==
    TensorDiv(all_reduce_sum(contributions), num_processes)

\* what a call of dist.all_reduce does to the tensor mine of its caller.
\* On tensors of one shape it returns with the sum.  On tensors of different
\* shapes nothing defines the outcome: the call may never return, may raise,
\* or may return with a tensor of unspecified contents, here the sum where
\* every process has an element and the caller's own elements elsewhere
AllReduceOutcomes(mine, contributions) ==
    IF SameShape(contributions)
    THEN {[status |-> "ok", value |-> all_reduce_sum(contributions)]}
    ELSE LET common == {k \in 1..Len(mine.data) :
                           \A v \in Workers : k <= Len(contributions[v].data)}
             partial ==
                 TensorOf(mine.dim,
                     [k \in 1..Len(mine.data) |->
                         IF k \in common
                         THEN RSum([v \in Workers |-> contributions[v].data[k]])
                         ELSE mine.data[k]])
         IN  {[status |-> "hang", value |-> mine],
              [status |-> "error", value |-> mine],
              [status |-> "ok", value |-> partial]}

\* where a worker is after a call of dist.all_reduce that does not return
\* ("Hung") or raises ("Raised")
AfterAllReduce(status, returned) ==
    IF status = "ok" THEN returned
    ELSE IF status = "hang" THEN "Hung" ELSE "Raised"

GatherConfigs ==
    {[BaseConfig EXCEPT !.num_processes = NumWorkers],
     [BaseConfig EXCEPT !.num_processes = NumWorkers, !.adap_kl_ctrl = FALSE]}

DistributedTypes == {"MULTI_GPU", "MULTI_CPU"}

InitGather ==
    /\ config \in GatherConfigs
    /\ theta = 0
    /\ kl_ctl = kl_ctl_init(config)
    /\ pc = "Idle"
    /\ arg_lens = <<>>
    /\ queries = <<>> /\ responses = <<>> /\ scores = <<>>
    /\ logprobs = <<>> /\ ref_logprobs = <<>> /\ values = <<>>
    /\ rewards = <<>> /\ non_score_reward = <<>>
    /\ idxs = <<>> /\ epoch = 0 /\ i = 0
    /\ all_stats = <<>>
    /\ last_loss = NoLoss
    /\ opt_calls = <<>>
    /\ stats = NoStats
    /\ raised = NoRaise
    /\ nsteps = 0
    /\ trace = <<>>
    /\ distributed_type \in DistributedTypes
    /\ wpc = [w \in Workers |-> "RecordStats"]
    /\ wctl = [w \in Workers |-> kl_ctl_init(config)]
    /\ wstats = [w \in Workers |-> NoStats]
    /\ wlocal = [w \in Workers |-> <<>>]
    /\ wkey = [w \in Workers |-> 0]
    /\ wsteps = [w \in Workers |-> 0]
    /\ barrier_calls = [w \in Workers |-> 0]
    /\ reduce_log = [w \in Workers |-> <<>>]
    /\ wrewards = [w \in Workers |-> NoStats]
    /\ wlogs = [w \in Workers |-> 0]

\* the single trainer of Spec is not running
TrainerIdle ==
    UNCHANGED <<config, theta, kl_ctl, pc, arg_lens, queries, responses, scores,
                logprobs, ref_logprobs, values, rewards, non_score_reward,
                idxs, epoch, i, all_stats, last_loss, opt_calls, stats, raised,
                nsteps, trace, distributed_type>>

\* lines 282-291: the worker records the stats of its shard
WRecordStats(w) ==
    /\ wpc[w] = "RecordStats"
    /\ \E st \in LocalStats(wctl[w].value) :
         /\ wstats' = [wstats EXCEPT ![w] = st]
         /\ wlocal' = [wlocal EXCEPT ![w] = Append(@, st)]
    /\ wpc' = [wpc EXCEPT ![w] = IF is_distributed THEN "Barrier" ELSE "KLUpdate"]
    /\ UNCHANGED <<wctl, wkey, wsteps, barrier_calls, reduce_log, wrewards, wlogs>>
    /\ TrainerIdle

\* line 319: dist.barrier() is called
WBarrier(w) ==
    /\ wpc[w] = "Barrier"
    /\ barrier_calls' = [barrier_calls EXCEPT ![w] = @ + 1]
    /\ wpc' = [wpc EXCEPT ![w] = "InBarrier"]
    /\ UNCHANGED <<wctl, wstats, wlocal, wkey, wsteps, reduce_log, wrewards, wlogs>>
    /\ TrainerIdle

\* dist.barrier() returns once every worker has called it
WBarrierPass(w) ==
    /\ wpc[w] = "InBarrier"
    /\ \A v \in Workers : barrier_calls[v] >= barrier_calls[w]
    /\ wpc' = [wpc EXCEPT ![w] = "GatherLoop"]
    /\ wkey' = [wkey EXCEPT ![w] = 1]
    /\ UNCHANGED <<wctl, wstats, wlocal, wsteps, barrier_calls, reduce_log,
                   wrewards, wlogs>>
    /\ TrainerIdle

\* lines 321-323 and 326: the next key of stats.items(); a tensor is handed
\* to dist.all_reduce, any other value is kept; after the last key
\* gather_stats returns
WGatherKey(w) ==
    /\ wpc[w] = "GatherLoop"
    /\ IF wkey[w] > Len(StatKeys)
       THEN /\ wpc' = [wpc EXCEPT ![w] = "KLUpdate"]
            /\ UNCHANGED <<wkey, reduce_log>>
       ELSE IF IsTensor(wstats[w][StatKeys[wkey[w]]])
       THEN /\ reduce_log' = [reduce_log EXCEPT ![w] =
                   Append(@, [key |-> StatKeys[wkey[w]],
                              value |-> wstats[w][StatKeys[wkey[w]]]])]
            /\ wpc' = [wpc EXCEPT ![w] = "InAllReduce"]
            /\ UNCHANGED wkey
       ELSE /\ wkey' = [wkey EXCEPT ![w] = @ + 1]
            /\ UNCHANGED <<wpc, reduce_log>>
    /\ UNCHANGED <<wctl, wstats, wlocal, wsteps, barrier_calls, wrewards, wlogs>>
    /\ TrainerIdle

\* dist.all_reduce returns once every worker has made the matching call;
\* lines 324-325
WAllReduceDone(w) ==
    /\ wpc[w] = "InAllReduce"
    /\ \A v \in Workers : Len(reduce_log[v]) >= Len(reduce_log[w])
    /\ LET n == Len(reduce_log[w])
           contributions == [v \in Workers |-> reduce_log[v][n].value]
       IN  \E out \in AllReduceOutcomes(reduce_log[w][n].value, contributions) :
              /\ wstats' = [wstats EXCEPT ![w][StatKeys[wkey[w]]] =
                               IF out.status = "ok"
                               THEN TensorDiv(out.value, config.num_processes)
                               ELSE @]
              /\ wkey' = [wkey EXCEPT ![w] = IF out.status = "ok" THEN @ + 1 ELSE @]
              /\ wpc' = [wpc EXCEPT ![w] = AfterAllReduce(out.status, "GatherLoop")]
    /\ UNCHANGED <<wctl, wlocal, wsteps, barrier_calls, reduce_log, wrewards, wlogs>>
    /\ TrainerIdle

\* lines 293-302: stats_to_np, then the controller is updated with
\* stats["objective/kl"]
WKLUpdate(w) ==
    /\ wpc[w] = "KLUpdate"
    /\ wctl' = [wctl EXCEPT ![w] =
                   kl_ctl_update(@, wstats[w]["objective/kl"].data[1],
                                 kl_update_count(config, config.num_processes))]
    /\ wsteps' = [wsteps EXCEPT ![w] = @ + 1]
    /\ wpc' = [wpc EXCEPT ![w] = "Returned"]
    /\ UNCHANGED <<wstats, wlocal, wkey, barrier_calls, reduce_log, wrewards, wlogs>>
    /\ TrainerIdle

\* the worker's next call of step() reaches line 282
WNextStep(w) ==
    /\ wpc[w] = "Returned"
    /\ wsteps[w] < MaxSteps
    /\ wpc' = [wpc EXCEPT ![w] = "RecordStats"]
    /\ UNCHANGED <<wctl, wstats, wlocal, wkey, wsteps, barrier_calls, reduce_log,
                   wrewards, wlogs>>
    /\ TrainerIdle

\* log_stats (lines 599-660), called at most once after a step, with
\* config.log_with_wandb set, so that the statistics go to wandb (lines
\* 641-646) and stats is left as it is.  The rewards become a tensor on the
\* main process (lines 621-622) and, when self.is_distributed, on the others
\* (lines 656-657); when self.is_distributed the worker calls dist.barrier()
\* (line 636 on the main process, line 659 on the others); otherwise
\* log_stats returns
WLogStats(w) ==
    /\ wpc[w] = "Returned"
    /\ wlogs[w] < wsteps[w]
    /\ wlogs' = [wlogs EXCEPT ![w] = @ + 1]
    /\ \E r \in LogRewards :
          wrewards' = [wrewards EXCEPT ![w] =
                          IF is_main_process(w) \/ is_distributed
                          THEN rewards_to_tensor(r) ELSE r]
    /\ IF is_distributed
       THEN /\ barrier_calls' = [barrier_calls EXCEPT ![w] = @ + 1]
            /\ wpc' = [wpc EXCEPT ![w] = "InLogBarrier"]
       ELSE UNCHANGED <<barrier_calls, wpc>>
    /\ UNCHANGED <<wctl, wstats, wlocal, wkey, wsteps, reduce_log>>
    /\ TrainerIdle

\* the barrier of log_stats returns once every worker has made as many
\* barrier calls; the worker calls dist.all_reduce(rewards) (lines 638, 660)
WLogBarrierPass(w) ==
    /\ wpc[w] = "InLogBarrier"
    /\ \A v \in Workers : barrier_calls[v] >= barrier_calls[w]
    /\ reduce_log' = [reduce_log EXCEPT ![w] =
                         Append(@, [key |-> "rewards", value |-> wrewards[w]])]
    /\ wpc' = [wpc EXCEPT ![w] = "InLogAllReduce"]
    /\ UNCHANGED <<wctl, wstats, wlocal, wkey, wsteps, barrier_calls, wrewards, wlogs>>
    /\ TrainerIdle

\* dist.all_reduce(rewards) returns once every worker has made the matching
\* call; the main process divides by num_processes (line 639), the others
\* keep the sum (line 660); log_stats returns
WLogAllReduceDone(w) ==
    /\ wpc[w] = "InLogAllReduce"
    /\ \A v \in Workers : Len(reduce_log[v]) >= Len(reduce_log[w])
    /\ LET n == Len(reduce_log[w])
           contributions == [v \in Workers |-> reduce_log[v][n].value]
       IN  \E out \in AllReduceOutcomes(reduce_log[w][n].value, contributions) :
              /\ wrewards' = [wrewards EXCEPT ![w] =
                                 IF out.status = "ok" /\ is_main_process(w)
                                 THEN TensorDiv(out.value, config.num_processes)
                                 ELSE out.value]
              /\ wpc' = [wpc EXCEPT ![w] = AfterAllReduce(out.status, "Returned")]
    /\ UNCHANGED <<wctl, wstats, wlocal, wkey, wsteps, barrier_calls, reduce_log, wlogs>>
    /\ TrainerIdle

NextGather ==
    \E w \in Workers :
        \/ WRecordStats(w)
        \/ WBarrier(w)
        \/ WBarrierPass(w)
        \/ WGatherKey(w)
        \/ WAllReduceDone(w)
        \/ WKLUpdate(w)
        \/ WNextStep(w)
        \/ WLogStats(w)
        \/ WLogBarrierPass(w)
        \/ WLogAllReduceDone(w)

SpecGather == InitGather /\ [][NextGather]_vars

----------------------------------------------------------------------------
(* Properties                                                              *)

Kl(k, t) == RSub(logprobs[k][t], ref_logprobs[k][t])

\* seq is the n entries of full at the 0-based positions first .. first+n-1
IsWindow(seq, full, first, n) ==
    /\ first >= 0
    /\ first + n <= Len(full)
    /\ seq = [t \in 1..n |-> full[first + t]]

\* the outputs of the networks on example k alone, as the forward pass saw them
FullLogprobs(k) ==
    LET ids == Cat(queries[k], responses[k])
    IN  shifted_logprobs(model(<<ids>>, theta).logits[1], ids)
FullRefLogprobs(k) ==
    LET ids == Cat(queries[k], responses[k])
    IN  shifted_logprobs(ref_model(<<ids>>).logits[1], ids)
FullValues(k) == model(<<Cat(queries[k], responses[k])>>, theta).v[1]

\* C1: a call of step() given a list whose length is not batch_size raises
\* a validation error (ValueError) from the input validation, before any
\* computation and with no update done.
C1_LengthMismatchRaisesValidationError ==
    (arg_lens # <<>> /\ \E n \in 1..3 : arg_lens[n] # config.batch_size)
        => /\ pc = "Raised"
           /\ raised.kind = "ValueError"
           /\ raised.phase = "Validation"
           /\ raised.updates = 0

\* C2: with a batch size the forward sub-batch size does not divide, the
\* step never gets past the forward pass: the error is raised there, no
\* minibatch update is ever applied, and no example is left out of returned
\* lists.
C2_IndivisibleBatchRaisesAtForwardPass ==
    (config.batch_size % config.forward_batch_size # 0)
        => /\ pc \notin {"RewardShaping", "Shuffle", "Minibatch",
                         "StatsAggregation", "KLUpdate", "Return"}
           /\ (pc = "Raised" /\ raised.phase # "Validation"
                  => raised.phase = "ForwardPass" /\ raised.updates = 0)
           /\ theta = 0

\* C3: every score that passed the input validation, and so reaches the
\* forward pass and reward shaping, is a rank-0 tensor of one element.
C3_ValidatedScoresAreScalars ==
    pc \in {"ForwardPass", "RewardShaping"}
        => \A k \in 1..Len(scores) :
               scores[k].dim = 0 /\ Len(scores[k].data) = 1

\* C4: once rewards are shaped, for every example non_score_reward[t] is
\* -kl_coef * (logprobs[t] - ref_logprobs[t]) at every position, reward[t] is
\* non_score_reward[t] except at the last position where the score is added,
\* and sum(reward) = sum(non_score_reward) + score.
C4_RewardShaping ==
    pc \in {"Shuffle", "Minibatch", "StatsAggregation", "KLUpdate"}
        => /\ Len(rewards) = Len(logprobs)
           /\ Len(non_score_reward) = Len(logprobs)
           /\ \A k \in 1..Len(rewards) :
                LET L == Len(logprobs[k])
                IN  /\ Len(rewards[k]) = L
                    /\ Len(non_score_reward[k]) = L
                    /\ \A t \in 1..L :
                         /\ non_score_reward[k][t] = RMul(RNeg(kl_ctl.value), Kl(k, t))
                         /\ rewards[k][t] =
                              IF t = L
                              THEN RAdd(non_score_reward[k][t], scores[k].data[1])
                              ELSE non_score_reward[k][t]
                    /\ RSum(rewards[k]) =
                         RAdd(RSum(non_score_reward[k]), scores[k].data[1])

\* rewards are shaped for an example of two response tokens with a KL penalty
\* at the first one and a score at the last
C4_Witness ==
    /\ pc = "Shuffle"
    /\ \E k \in 1..Len(rewards) :
         /\ Len(rewards[k]) = 2
         /\ non_score_reward[k][1] # R(0)
         /\ rewards[k][1] = non_score_reward[k][1]
         /\ rewards[k][2] # non_score_reward[k][2]

\* C5: after the forward pass, for every example the action log-probabilities
\* (policy and reference) are the entries at positions [L_q-1, L_q+L_r-1) of
\* the shifted log-probability output and the values are the entries at
\* positions [L_q-2, L_q+L_r-2) of the value output.
C5_WindowPositions ==
    pc = "RewardShaping"
        => \A k \in 1..Len(logprobs) :
             LET Lq == Len(queries[k])
                 Lr == Len(responses[k])
             IN  /\ IsWindow(logprobs[k], FullLogprobs(k), Lq - 1, Lr)
                 /\ IsWindow(ref_logprobs[k], FullRefLogprobs(k), Lq - 1, Lr)
                 /\ IsWindow(values[k], FullValues(k), Lq - 2, Lr)

\* C6: after the forward pass each returned list has one entry per example,
\* and each entry has the length of that example's response.
C6_LengthsAreResponseLengths ==
    pc = "RewardShaping"
        => /\ Len(logprobs) = config.batch_size
           /\ Len(ref_logprobs) = config.batch_size
           /\ Len(values) = config.batch_size
           /\ \A k \in 1..Len(logprobs) :
                /\ Len(logprobs[k]) = Len(responses[k])
                /\ Len(ref_logprobs[k]) = Len(responses[k])
                /\ Len(values[k]) = Len(responses[k])

\* the non-score rewards of this step are -coef times the per-token KL
ShapedWith(coef) ==
    \A k \in 1..Len(non_score_reward) :
        \A t \in 1..Len(non_score_reward[k]) :
            non_score_reward[k][t] = RMul(RNeg(coef), Kl(k, t))

\* C7: objective/kl_coef of the stats record is the controller's value before
\* this step's update: it is the controller's value while the update is
\* pending, it is the coefficient the rewards of this step were shaped with,
\* and the value the controller holds when step() returns is the update of it.
C7_KlCoefIsPreUpdate ==
    /\ pc = "KLUpdate"
          => /\ stats.objective_kl_coef = kl_ctl.value
             /\ ShapedWith(stats.objective_kl_coef)
    /\ pc = "Return"
          => /\ ShapedWith(stats.objective_kl_coef)
             /\ kl_ctl.value =
                  kl_ctl_update([kl_ctl EXCEPT !.value = stats.objective_kl_coef],
                                stats.objective_kl,
                                kl_update_count(config, config.num_processes)).value

\* step() returns after an update that changed the coefficient, in a step
\* whose rewards carry a KL penalty
C7_Witness ==
    /\ pc = "Return"
    /\ stats.objective_kl_coef # kl_ctl.value
    /\ \E k \in 1..Len(non_score_reward) :
         \E t \in 1..Len(non_score_reward[k]) : non_score_reward[k][t] # R(0)

\* C8: the Fixed controller's value never changes; the Adaptive controller's
\* update (with n = batch_size * number of workers) strictly increases a
\* positive value when the observed KL is above a positive target and
\* strictly decreases it when below, for a positive horizon.
C8_ControllerMonotone ==
    [][/\ kl_ctl.kind = "fixed" => kl_ctl'.value = kl_ctl.value
       /\ (/\ pc = "KLUpdate"
           /\ kl_ctl.kind = "adaptive"
           /\ RGt(kl_ctl.value, R(0))
           /\ RGt(kl_ctl.target, R(0))
           /\ RGt(kl_ctl.horizon, R(0)))
          => /\ RGt(stats.objective_kl, kl_ctl.target)
                   => RGt(kl_ctl'.value, kl_ctl.value)
             /\ RLt(stats.objective_kl, kl_ctl.target)
                   => RLt(kl_ctl'.value, kl_ctl.value)]_vars

\* the Adaptive controller has been updated with an observed KL above target
C8_Witness ==
    /\ pc = "Return"
    /\ kl_ctl.kind = "adaptive"
    /\ RGt(stats.objective_kl, kl_ctl.target)
    /\ RGt(kl_ctl.value, stats.objective_kl_coef)

\* C9: the advantages loss() computes satisfy the backward GAE recurrence:
\* delta[t] = reward[t] + gamma * next_value - value[t] with next_value the
\* value at t+1, or 0 at the last position, advantage[t] = delta[t] +
\* gamma * lam * advantage[t+1] (0 beyond the last position), and
\* return[t] = advantage[t] + value[t]; for a response of one token
\* advantage[0] = reward[0] - value[0].
C9_GaeRecurrence ==
    last_loss.err = "none"
        => LET A == last_loss.advantages
               V == last_loss.values
               Rw == last_loss.rewards
               L == Len(last_loss.old_logprobs)
               delta(t) == RSub(RAdd(Rw[t], RMul(config.gamma,
                                                  IF t < L THEN V[t + 1] ELSE R(0))),
                                V[t])
           IN  /\ Len(A) = L
               /\ Len(last_loss.returns) = L
               /\ \A t \in 1..L :
                    /\ A[t] = RAdd(delta(t),
                                   RMul(RMul(config.gamma, config.lam),
                                        IF t < L THEN A[t + 1] ELSE R(0)))
                    /\ last_loss.returns[t] = RAdd(A[t], V[t])
               /\ L = 1 => A[1] = RSub(Rw[1], V[1])

\* loss() has run on a response of two tokens whose first advantage has a
\* recurrence term
C9_Witness ==
    /\ last_loss.err = "none"
    /\ Len(last_loss.advantages) = 2
    /\ last_loss.advantages[2] # R(0)
    /\ last_loss.advantages[1] # last_loss.advantages[2]
    /\ config.gamma # R(1)

\* the whitened advantages of the latest call of loss(), for a scale
LastWhitened(scale) == whiten(last_loss.advantages, scale)

\* the elements of the latest call where the clipped branch is the larger
\* loss: a positive advantage with a ratio above 1 + c, or a negative
\* advantage with a ratio below 1 - c
ClippedSelected(scale, c) ==
    {t \in 1..Len(last_loss.ratio) :
        \/ /\ RGt(LastWhitened(scale)[t], R(0))
           /\ RGt(last_loss.ratio[t], RAdd(R(1), c))
        \/ /\ RLt(LastWhitened(scale)[t], R(0))
           /\ RLt(last_loss.ratio[t], RSub(R(1), c))}

\* C10 as stated, for a response of two tokens or more (whose advantages
\* whitening does not all send to zero): with cliprange = 0 the clip fraction
\* is the fraction of elements whose ratio differs from 1, and with a
\* cliprange no ratio lies outside of it is 0.
C10_ZeroClipRangeCountsEveryMovedRatio ==
    (last_loss.err = "none" /\ Len(last_loss.ratio) > 1)
        => /\ config.cliprange = R(0)
                => last_loss.pg_clipfrac =
                     Rat(Cardinality({t \in 1..Len(last_loss.ratio) :
                                         last_loss.ratio[t] # R(1)}),
                         Len(last_loss.ratio))
           /\ (\A t \in 1..Len(last_loss.ratio) :
                   /\ RLe(RSub(R(1), config.cliprange), last_loss.ratio[t])
                   /\ RLe(last_loss.ratio[t], RAdd(R(1), config.cliprange)))
                => last_loss.pg_clipfrac = R(0)

\* C10, amended: the clip fraction is the fraction of elements where the
\* clipped loss is strictly the larger one (positive advantage and ratio
\* above 1 + cliprange, or negative advantage and ratio below 1 - cliprange);
\* it does not increase when cliprange grows; with cliprange = 0 the
\* elements counted are those with advantage * (ratio - 1) > 0; and with a
\* cliprange no ratio lies outside of it is 0.
C10_ClipFraction ==
    last_loss.err = "none"
        => \A scale \in WhitenScales :
             LET n == Len(last_loss.ratio)
                 W == LastWhitened(scale)
             IN  /\ last_loss.pg_clipfrac =
                      Rat(Cardinality(ClippedSelected(scale, config.cliprange)), n)
                 /\ \A c \in {R(0), Rat(1, 5), R(4)} :
                      RLe(config.cliprange, c)
                          => RLe(pg_clipfrac_of(W, last_loss.ratio, c),
                                 last_loss.pg_clipfrac)
                 /\ config.cliprange = R(0)
                      => last_loss.pg_clipfrac =
                           Rat(Cardinality({t \in 1..n :
                                   RGt(RMul(W[t], RSub(last_loss.ratio[t], R(1))),
                                       R(0))}), n)
                 /\ (\A t \in 1..n :
                        /\ RLe(RSub(R(1), config.cliprange), last_loss.ratio[t])
                        /\ RLe(last_loss.ratio[t], RAdd(R(1), config.cliprange)))
                      => last_loss.pg_clipfrac = R(0)

\* loss() has run with cliprange = 0 on two elements whose ratios both
\* differ from 1, and counted one of them
C10_Witness ==
    /\ last_loss.err = "none"
    /\ config.cliprange = R(0)
    /\ Len(last_loss.ratio) = 2
    /\ \A t \in 1..2 : last_loss.ratio[t] # R(1)
    /\ last_loss.pg_clipfrac = Rat(1, 2)

\* the place of a phase in the order of step()
PhaseRank(name) ==
    CASE name = "ForwardPass" -> 1
      [] name = "RewardShaping" -> 2
      [] name = "Minibatch" -> 3
      [] name = "StatsAggregation" -> 4
      [] name = "KLUpdate" -> 5

\* the phases completed so far came in the order of step(), each of them
\* once but for the minibatch updates, and the call is where they lead
PhasesInOrder ==
    /\ \A a, b \in 1..Len(trace) :
          a < b => /\ PhaseRank(trace[a].phase) <= PhaseRank(trace[b].phase)
                   /\ trace[a].phase = trace[b].phase => trace[a].phase = "Minibatch"
    /\ \A a \in 1..Len(trace) :
          PhaseRank(trace[a].phase) > 1 => a > 1 /\
              PhaseRank(trace[a - 1].phase) >= PhaseRank(trace[a].phase) - 1
    /\ Len(trace) > 0 => trace[1].phase = "ForwardPass"
    /\ pc \in {"Idle", "ForwardPass", "Raised"} => trace = <<>>
    /\ pc = "RewardShaping" => trace[Len(trace)].phase = "ForwardPass"
    /\ pc = "Shuffle" => trace[Len(trace)].phase \in {"RewardShaping", "Minibatch"}
    /\ pc = "Minibatch" => trace[Len(trace)].phase \in {"RewardShaping", "Minibatch"}
    /\ pc = "StatsAggregation" => trace[Len(trace)].phase = "Minibatch"
    /\ pc = "KLUpdate" => trace[Len(trace)].phase = "StatsAggregation"
    /\ pc = "Return" => trace[Len(trace)].phase = "KLUpdate"

\* C11: within a call of step() the phases come in the order forward pass,
\* reward shaping, minibatch updates, stats aggregation, KL update; the
\* outputs of the forward pass and the rewards are written by their own phase
\* only, the policy is updated by minibatch updates only, the controller is
\* updated once, by the KL update that follows stats aggregation, and the
\* next call starts from the idle trainer, after that update.
C11_PhasesInOrder ==
    [][/\ PhasesInOrder'
       /\ (logprobs' # logprobs /\ logprobs' # <<>>) => pc = "ForwardPass"
       /\ (rewards' # rewards /\ rewards' # <<>>) => pc = "RewardShaping"
       /\ theta' # theta => pc = "Minibatch" /\ trace[2].phase = "RewardShaping"
       /\ kl_ctl' # kl_ctl => pc = "KLUpdate" /\ pc' = "Return"
       /\ pc' = "Return" => pc = "KLUpdate"
       /\ (pc' = "Idle" /\ pc # "Raised") => pc = "Return"
       /\ pc' = "ForwardPass" => pc = "Idle"]_vars

\* a call of step() returns after two minibatch updates and an update that
\* changed the controller's value
C11_Witness ==
    /\ pc = "Return"
    /\ Len(trace) = 6
    /\ trace[3].phase = "Minibatch" /\ trace[4].phase = "Minibatch"
    /\ trace[6].phase = "KLUpdate"
    /\ kl_ctl.value # kl_ctl_init(config).value

\* the indices of the minibatch updates of the current call, in their order
TrainedIdxs ==
    LET IsMinibatch(e) == e.phase = "Minibatch"
        ms == SelectSeq(trace, IsMinibatch)
    IN  [k \in 1..Len(ms) |-> ms[k].idx]

\* the epochs done so far each trained every index 0 .. batch_size-1 once,
\* and each update was one zero_grad, one backward and one optimizer step
EpochsArePermutations ==
    LET bs == config.batch_size
        n == Len(TrainedIdxs)
    IN  /\ \A e \in 0..((n \div bs) - 1) :
              {TrainedIdxs[e * bs + k] : k \in 1..bs} = 0..(bs - 1)
        /\ \A a, b \in 1..n :
              (a < b /\ (a - 1) \div bs = (b - 1) \div bs)
                  => TrainedIdxs[a] # TrainedIdxs[b]
        /\ n > 0 => opt_calls = <<"zero_grad", "backward", "step">>
        /\ n = Len(all_stats)

\* C12: for valid inputs (lists of batch_size tensors with scalar scores,
\* which is what reaches the epoch loop) the epoch loop runs to its end: it
\* never stops early, it ends after exactly ppo_epochs * batch_size minibatch
\* updates, every epoch trains each index once, and each update is one
\* zero_grad, one backward and one optimizer step in that order.
C12_EpochLoopRunsToCompletion ==
    /\ pc = "Raised" => raised.phase # "EpochLoop"
    /\ pc \in {"Shuffle", "Minibatch", "StatsAggregation", "KLUpdate", "Return"}
          => EpochsArePermutations
    /\ pc \in {"StatsAggregation", "KLUpdate", "Return"}
          => Len(TrainedIdxs) = config.ppo_epochs * config.batch_size

\* C13: for every example, the response window loss() slices from a fresh
\* forward pass on the query followed by the response is the window
\* batched_forward_pass sliced for it: with the parameters of the forward
\* pass, the fresh log-probabilities are the stored log-probabilities and the
\* fresh value predictions are the stored values, position by position.
C13_LossWindowIsForwardWindow ==
    pc = "RewardShaping"
        => \A k \in 1..Len(logprobs) :
             LET ids == Cat(queries[k], responses[k])
                 gen_len == Len(responses[k])
             IN  /\ fresh_logprob(theta, ids, gen_len) = logprobs[k]
                 /\ fresh_vpred(theta, ids, gen_len) = values[k]

\* the calls of dist.all_reduce worker w has made inside gather_stats, in
\* their order
GatherCalls(w) ==
    LET InGather(call) == call.key # "rewards"
    IN  SelectSeq(reduce_log[w], InGather)

\* the keys of the tensor-valued statistics of a stats record, in key order
TensorKeys(st) ==
    LET Tensor(key) == IsTensor(st[key])
    IN  SelectSeq(StatKeys, Tensor)

\* the keys of the all_reduce calls worker w has made inside gather_stats
ReducedKeys(w) == [k \in 1..Len(GatherCalls(w)) |-> GatherCalls(w)[k].key]

\* the calls of dist.barrier() worker w has made inside step()
StepBarrierCalls(w) == barrier_calls[w] - (IF is_distributed THEN wlogs[w] ELSE 0)

\* the sum over the workers of what they recorded for step n under key,
\* divided by the number of workers
WorkerMean(n, key) ==
    all_reduce_mean([v \in Workers |-> wlocal[v][n][key]], NumWorkers)

\* worker w has, in each of its steps, called the barrier once and then made
\* one all_reduce call per tensor-valued statistic in the order of the keys,
\* and each of its tensor-valued statistics is the sum of what the workers
\* recorded for this step divided by the number of workers
Gathered(w) ==
    LET n == Len(wlocal[w])
        keys == TensorKeys(wlocal[w][n])
    IN  /\ StepBarrierCalls(w) = n
        /\ Len(ReducedKeys(w)) = n * Len(keys)
        /\ \A k \in 1..Len(ReducedKeys(w)) :
              ReducedKeys(w)[k] = keys[((k - 1) % Len(keys)) + 1]
        /\ \A v \in Workers : Len(wlocal[v]) >= n
        /\ \A k \in 1..Len(keys) :
              /\ SameShape([v \in Workers |-> wlocal[v][n][keys[k]]])
              /\ wstats[w][keys[k]] = WorkerMean(n, keys[k])

\* C14: in a step of a run with several workers, every worker calls the
\* barrier once and then issues the same sequence of all_reduce calls, one
\* per tensor-valued statistic in key order, no worker is left in a
\* collective that does not return, and when gather_stats is behind it every
\* tensor-valued statistic it holds is the sum over the workers divided by
\* the number of workers.
C14_WorkersGatherStats ==
    /\ \A w \in DOMAIN wpc :
          wpc[w] \in {"KLUpdate", "Returned"} => Gathered(w)
    /\ \A w, v \in DOMAIN wpc :
          \A k \in 1..Len(ReducedKeys(w)) :
              k <= Len(ReducedKeys(v)) => ReducedKeys(w)[k] = ReducedKeys(v)[k]
    /\ \A w \in DOMAIN wpc : wpc[w] \notin {"Hung", "Raised"}

\* C15: workers that started with the same KL coefficient hold the same
\* coefficient after the same number of steps, whatever the distributed type
\* of the run.
C15_WorkersAgreeOnKlCoef ==
    \A w, v \in DOMAIN wpc :
        (wpc[w] = "Returned" /\ wpc[v] = "Returned" /\ wsteps[w] = wsteps[v])
            => wctl[w].value = wctl[v].value

====
